---------------------------- MODULE Spec2Model ----------------------------
(***************************************************************************)
(* The data-preparation and evaluation pipeline of the two patent          *)
(* classification notebooks:                                               *)
(*   project_files/patent_nlp_classification.ipynb   (notebook = "nlp")    *)
(*   patent_linear_regression.ipynb (unnamed/part_000) (notebook = "reg")  *)
(* A notebook is a sequence of cells run top to bottom; every cell is one  *)
(* action and the notebook's global names are the variables.  A pandas     *)
(* DataFrame / Series is [columns |-> set of names, rows |-> sequence of    *)
(* rows]; a row maps "index" (its pandas index label) and every column to  *)
(* a cell value.                                                           *)
(***************************************************************************)
EXTENDS Integers, Sequences, FiniteSets, TLC

VARIABLES
    notebook,                 \* which of the two notebooks runs
    raw,                      \* contents of ml_dataset.parquet
    pc,                       \* the next cell to run, or "done" / "failed"
    error,                    \* the exception that stopped the run, "" if none
    df,                       \* result of the cleaning cell
    renormalized,             \* the cleaning statements applied once more to df
    df_majority,
    df_minority,
    df_majority_downsampled,
    df_downsampled,
    encoder,                  \* reg: the LabelEncoder, [classes_ |-> categories]
    train_test_dataset,       \* nlp: [train |-> rows, test |-> rows]
    X_train, X_test,          \* reg: Series of cpc_4_encoded
    y_train, y_test,          \* reg: Series of labels
    predictions,              \* nlp: logits per test row; reg: predicted labels
    metrics,                  \* accuracy, precision, recall, f1 as fractions
    rs42,                     \* RandomState(42): array length |-> its permutation
    runs,                     \* how many times the notebook has been started
    prev                      \* what the previous run of the notebook produced

inputVars == <<notebook, raw>>
cleanVars == <<df, renormalized>>
balanceVars == <<df_majority, df_minority, df_majority_downsampled,
                 df_downsampled, encoder>>
splitVars == <<train_test_dataset, X_train, X_test, y_train, y_test>>
evalVars == <<predictions, metrics>>
runVars == <<runs, prev>>

vars == <<inputVars, pc, error, cleanVars, balanceVars, splitVars, evalVars,
          rs42, runVars>>

---------------------------------------------------------------------------
(* Bounds of the model *)

MaxRows == 4          \* rows of the parquet file in the pipeline runs
MaxRerunRows == 3     \* rows of the parquet file when the notebook is run twice
MaxBalanceRows == 10  \* rows of the parquet file in the downsampling runs
MaxOnes == 2          \* rows labelled 1 in the downsampling runs
MaxCleanRows == 2     \* rows of the parquet file in the cleaning runs
MaxLabels == 4        \* length of the label sequences in the evaluation runs
MaxRuns == 2          \* the notebook is run at most this many times

---------------------------------------------------------------------------
(* Cell values *)

None == "None"        \* a missing value of an object (string) column
NaN == -1             \* a missing value of the numeric labels column

NumericColumns == {"labels", "cpc_4_encoded"}

isna(c, v) == IF c \in NumericColumns THEN v = NaN ELSE v = None

Unset == [unset |-> TRUE]          \* a notebook name not assigned yet

KeyError == [error |-> "KeyError"]
ValueError == [error |-> "ValueError"]
IsError(v) == "error" \in DOMAIN v

RawColumns == {"ucid", "title", "abstract", "code", "cpc_first_4", "labels"}

\* the categories, in the lexicographic order np.unique sorts them in
CpcCodes == <<"G06F", "H01L">>

---------------------------------------------------------------------------
(* Sequence helpers *)

Range(s) == {s[i] : i \in DOMAIN s}

\* positional selection rows[positions[1]], rows[positions[2]], ...
iloc(rows, positions) == [k \in 1..Len(positions) |-> rows[positions[k]]]

\* boolean-mask selection: the rows at the positions in S, in frame order
Mask(rows, S) ==
    LET Selected(i) == i \in S
    IN  iloc(rows, SelectSeq([i \in 1..Len(rows) |-> i], Selected))

Injective(s) == \A i, j \in DOMAIN s : s[i] = s[j] => i = j

---------------------------------------------------------------------------
(* pandas operations used by the cleaning cell *)

DedupKey(nb) ==
    IF nb = "nlp" THEN {"title", "abstract"}
    ELSE {"title", "abstract", "ucid", "cpc_first_4"}

DroppedColumns(nb) ==
    IF nb = "nlp" THEN {"title", "abstract", "ucid", "code", "cpc_first_4"}
    ELSE {"title", "abstract", "ucid", "code"}

SameKey(r, s, subset) == \A c \in subset : r[c] = s[c]

\* the mutant: keep='last'
drop_duplicates_keep_last(frame, subset) ==
    IF ~(subset \subseteq frame.columns) THEN KeyError
    ELSE [frame EXCEPT !.rows =
            Mask(frame.rows,
                 {i \in DOMAIN frame.rows :
                    ~\E j \in DOMAIN frame.rows :
                        j > i /\ SameKey(frame.rows[j], frame.rows[i], subset)})]

\* DataFrame.drop_duplicates(subset=..., keep='first'); missing values of a
\* key column compare equal to each other
drop_duplicates(frame, subset) ==
    IF ~(subset \subseteq frame.columns) THEN KeyError
    ELSE [frame EXCEPT !.rows =
            Mask(frame.rows,
                 {i \in DOMAIN frame.rows :
                    ~\E j \in DOMAIN frame.rows :
                        j < i /\ SameKey(frame.rows[j], frame.rows[i], subset)})]

\* title + ' ' + abstract, element-wise; missing if either operand is
Concat(t, a) == IF t = None \/ a = None THEN None ELSE t \o " " \o a

\* df['text'] = df['title'] + ' ' + df['abstract']
AssignText(frame) ==
    IF ~({"title", "abstract"} \subseteq frame.columns) THEN KeyError
    ELSE [columns |-> frame.columns \cup {"text"},
          rows |-> [i \in DOMAIN frame.rows |->
                      [c \in DOMAIN frame.rows[i] \cup {"text"} |->
                          IF c = "text"
                          THEN Concat(frame.rows[i]["title"], frame.rows[i]["abstract"])
                          ELSE frame.rows[i][c]]]]

\* DataFrame.drop(columns=...)
drop(frame, columns) ==
    IF ~(columns \subseteq frame.columns) THEN KeyError
    ELSE [columns |-> frame.columns \ columns,
          rows |-> [i \in DOMAIN frame.rows |->
                      [c \in DOMAIN frame.rows[i] \ columns |-> frame.rows[i][c]]]]

HasNa(frame, r) == \E c \in frame.columns : isna(c, r[c])

\* DataFrame.dropna(): drops every row holding a missing value
dropna(frame) ==
    [frame EXCEPT !.rows =
        Mask(frame.rows, {i \in DOMAIN frame.rows : ~HasNa(frame, frame.rows[i])})]

\* the mutant: every statement skips the columns the frame does not have
\* (errors='ignore')
Normalize_ignore_missing(nb, frame) ==
    LET deduped == drop_duplicates(frame, DedupKey(nb) \cap frame.columns)
        derived == IF nb = "nlp" /\ {"title", "abstract"} \subseteq frame.columns
                   THEN AssignText(deduped) ELSE deduped
    IN  dropna(drop(derived, DroppedColumns(nb) \cap frame.columns))

\* the statements of the cleaning cell after read_parquet, applied to a frame
Normalize(nb, frame) ==
    LET deduped == drop_duplicates(frame, DedupKey(nb))
        derived == IF nb = "nlp" THEN AssignText(deduped) ELSE deduped
        pruned  == drop(derived, DroppedColumns(nb))
    IN  IF IsError(deduped) THEN deduped
        ELSE IF IsError(derived) THEN derived
        ELSE IF IsError(pruned) THEN pruned
        ELSE dropna(pruned)

---------------------------------------------------------------------------
(* The downsampling cell: sklearn.utils.resample, pd.concat, LabelEncoder *)

\* the mutant: the minority taken as df[df['labels'] != 0]
WhereLabel_not_zero(frame, value) ==
    [frame EXCEPT !.rows =
        Mask(frame.rows,
             {i \in DOMAIN frame.rows :
                IF value = 0 THEN frame.rows[i]["labels"] = 0
                ELSE frame.rows[i]["labels"] # 0})]

\* df[df['labels'] == value]
WhereLabel(frame, value) ==
    [frame EXCEPT !.rows =
        Mask(frame.rows, {i \in DOMAIN frame.rows : frame.rows[i]["labels"] = value})]

\* the first k positions of a shuffled arange(n) that start with prefix
Arrangements(n, k, prefix) ==
    {p \in [1..k -> 1..n] :
        /\ Injective(p)
        /\ \A i \in 1..k : i <= Len(prefix) => p[i] = prefix[i]}

\* the mutant: random_state=None, a fresh generator on every call
FreshShuffles(rs, n, k) == Arrangements(n, k, <<>>)

\* RandomState(42).shuffle(arange(n)) / .permutation(n), of which the caller
\* reads the first k positions.  The generator is deterministic but its
\* stream is not computed here: rs holds, per length n, the positions read
\* so far; what was read before comes back the same, what was never read is
\* any arrangement that continues it.
SeededShuffles(rs, n, k) ==
    IF n \in DOMAIN rs
    THEN IF Len(rs[n]) >= k THEN {rs[n]} ELSE Arrangements(n, k, rs[n])
    ELSE Arrangements(n, k, <<>>)

\* the generator's table once the positions p of a length-n shuffle were read
Observed(rs, n, p) == (n :> p) @@ rs

\* resample(frame, replace=False, n_samples=..., random_state=42) once the
\* generator has shuffled the positions: the first n_samples of them
resample(frame, n_samples, permutation) ==
    [frame EXCEPT !.rows = iloc(frame.rows, SubSeq(permutation, 1, n_samples))]

\* the mutant: pd.concat([b, a]), the list's frames in the other order
concat_minority_first(a, b) ==
    [columns |-> a.columns \cup b.columns, rows |-> b.rows \o a.rows]

\* pd.concat([a, b]): the rows of a, then the rows of b, index labels kept
concat(a, b) == [columns |-> a.columns \cup b.columns, rows |-> a.rows \o b.rows]

\* DataFrame.reset_index(drop=True): index labels 0, 1, 2, ...
reset_index(frame) ==
    [frame EXCEPT !.rows =
        [i \in DOMAIN frame.rows |-> [frame.rows[i] EXCEPT !["index"] = i - 1]]]

Column(frame, c) == [i \in DOMAIN frame.rows |-> frame.rows[i][c]]

\* the mutant: classes_ in order of appearance, repeats kept
LabelEncoder_fit_unsorted(values) == [classes_ |-> values]

\* LabelEncoder.fit: classes_ = np.unique(values), sorted, no repeats
LabelEncoder_fit(values) ==
    LET Seen(v) == v \in Range(values)
    IN  [classes_ |-> SelectSeq(CpcCodes, Seen)]

\* LabelEncoder.transform of one value: its position in classes_, from 0
LabelEncoder_transform(enc, v) ==
    (CHOOSE k \in DOMAIN enc.classes_ : enc.classes_[k] = v) - 1

\* frame[c] = values
AssignColumn(frame, c, values) ==
    [columns |-> frame.columns \cup {c},
     rows |-> [i \in DOMAIN frame.rows |->
                 [d \in DOMAIN frame.rows[i] \cup {c} |->
                     IF d = c THEN values[i] ELSE frame.rows[i][d]]]]

\* the mutant: n_samples=len(df_majority), nothing is sampled away
SampleSize_majority(majority, minority) == Len(majority.rows)

\* n_samples=len(df_minority)
SampleSize(majority, minority) == Len(minority.rows)

---------------------------------------------------------------------------
(* The split cell: Dataset.train_test_split / sklearn train_test_split *)

test_size == <<1, 5>>            \* test_size=0.2, as numerator and denominator

CeilDiv(a, b) == (a + b - 1) \div b

\* round(a / b) to the nearest integer, halves to the even neighbour
RoundDiv(a, b) ==
    LET q == a \div b
        r == a % b
    IN  IF 2 * r < b THEN q
        ELSE IF 2 * r > b THEN q + 1
        ELSE IF q % 2 = 0 THEN q ELSE q + 1

\* the mutant: n_test = round(test_size * n_samples)
n_test_rounded(n_samples) == RoundDiv(test_size[1] * n_samples, test_size[2])

\* n_test = ceil(test_size * n_samples)
n_test(n_samples) == CeilDiv(test_size[1] * n_samples, test_size[2])

\* n_train = n_samples - n_test
n_train(n_samples) == n_samples - n_test(n_samples)

\* ind_test = permutation[:n_test]
ind_test(permutation) == SubSeq(permutation, 1, n_test(Len(permutation)))

\* ind_train = permutation[n_test:(n_test + n_train)]
ind_train(permutation) ==
    SubSeq(permutation, n_test(Len(permutation)) + 1,
           n_test(Len(permutation)) + n_train(Len(permutation)))

\* Dataset.from_pandas of a frame with a RangeIndex: the index is not kept
from_pandas(frame) ==
    [frame EXCEPT !.rows =
        [i \in DOMAIN frame.rows |-> [c \in frame.columns |-> frame.rows[i][c]]]]

\* frame[c] as a Series: the column with the frame's index
Series(frame, c) ==
    [columns |-> {c},
     rows |-> [i \in DOMAIN frame.rows |->
                 [d \in {"index", c} |-> frame.rows[i][d]]]]

\* positional selection of a frame's rows
Take(frame, positions) == [frame EXCEPT !.rows = iloc(frame.rows, positions)]

---------------------------------------------------------------------------
(* The evaluation: sklearn.metrics, which the evaluate library's accuracy,  *)
(* precision, recall and f1 metrics call too.  Scores are fractions         *)
(* <<numerator, denominator>>.                                              *)

Logits == {0, 1}                 \* the values a class score takes

HowMany(y_true, y_pred, t, p) ==
    Cardinality({i \in DOMAIN y_true : y_true[i] = t /\ y_pred[i] = p})

TP(y_true, y_pred) == HowMany(y_true, y_pred, 1, 1)
FP(y_true, y_pred) == HowMany(y_true, y_pred, 0, 1)
FN(y_true, y_pred) == HowMany(y_true, y_pred, 1, 0)
TN(y_true, y_pred) == HowMany(y_true, y_pred, 0, 0)

\* _prf_divide with zero_division="warn": 0 where the denominator is 0
prf_divide(numerator, denominator) ==
    IF denominator = 0 THEN <<0, 1>> ELSE <<numerator, denominator>>

accuracy_score(y_true, y_pred) ==
    <<Cardinality({i \in DOMAIN y_true : y_true[i] = y_pred[i]}), Len(y_true)>>

\* the mutant: the arguments taken as (y_pred, y_true)
precision_score_swapped(y_true, y_pred) ==
    prf_divide(TP(y_pred, y_true), TP(y_pred, y_true) + FP(y_pred, y_true))

precision_score(y_true, y_pred) ==
    prf_divide(TP(y_true, y_pred), TP(y_true, y_pred) + FP(y_true, y_pred))

recall_score(y_true, y_pred) ==
    prf_divide(TP(y_true, y_pred), TP(y_true, y_pred) + FN(y_true, y_pred))

f1_score(y_true, y_pred) ==
    prf_divide(2 * TP(y_true, y_pred),
               2 * TP(y_true, y_pred) + FN(y_true, y_pred) + FP(y_true, y_pred))

\* np.argmax over the two class scores of a row: the first maximum
argmax(scores) == IF scores[2] > scores[1] THEN 1 ELSE 0

\* the four scores both notebooks report
Scores(y_true, y_pred) ==
    [accuracy  |-> accuracy_score(y_true, y_pred),
     precision |-> precision_score(y_true, y_pred),
     recall    |-> recall_score(y_true, y_pred),
     f1        |-> f1_score(y_true, y_pred)]

\* compute_metrics(p): preds = argmax(p.predictions, axis=1), labels = p.label_ids
compute_metrics(p_predictions, p_label_ids) ==
    Scores(p_label_ids, [i \in DOMAIN p_predictions |-> argmax(p_predictions[i])])

---------------------------------------------------------------------------
(* The files the runs read *)

\* read_parquet gives the rows a RangeIndex 0, 1, 2, ...
ReadParquet(records) ==
    [columns |-> RawColumns,
     rows |-> [i \in DOMAIN records |->
                 [c \in RawColumns \cup {"index"} |->
                     IF c = "index" THEN i - 1 ELSE records[i][c]]]]

\* records with missing values and repeated keys, for the cleaning runs
DirtyPatents ==
    [ucid : {"u1", "u2"}, title : {"t1", None}, abstract : {"a1", "a2"},
     code : {"c1"}, cpc_first_4 : {"H01L", None}, labels : {1, NaN}]

---------------------------------------------------------------------------
(* Cells *)

Blank ==
    /\ error = ""
    /\ df = Unset /\ renormalized = Unset
    /\ df_majority = Unset /\ df_minority = Unset
    /\ df_majority_downsampled = Unset /\ df_downsampled = Unset
    /\ encoder = Unset
    /\ train_test_dataset = Unset
    /\ X_train = Unset /\ X_test = Unset /\ y_train = Unset /\ y_test = Unset
    /\ predictions = Unset /\ metrics = Unset

InitClean ==
    /\ notebook \in {"nlp", "reg"}
    /\ \E n \in 0..MaxCleanRows : \E records \in [1..n -> DirtyPatents] :
          raw = ReadParquet(records)
    /\ pc = "clean"
    /\ Blank
    /\ rs42 = <<>>
    /\ runs = 1
    /\ prev = Unset

\* "Data Loading & Cleaning": read the file, then the cleaning statements
CleanCell ==
    /\ pc = "clean"
    /\ LET result == Normalize(notebook, raw)
       IN  IF IsError(result)
           THEN /\ error' = result.error
                /\ pc' = "failed"
                /\ df' = df
           ELSE /\ df' = result
                /\ pc' = "downsample"
                /\ error' = error
    /\ UNCHANGED <<inputVars, renormalized, balanceVars, splitVars, evalVars,
                   rs42, runVars>>

\* the cleaning statements applied to their own output
ApplyCleaningToOutput ==
    /\ pc = "downsample"
    /\ renormalized = Unset
    /\ renormalized' = Normalize(notebook, df)
    /\ UNCHANGED <<inputVars, pc, error, df, balanceVars, splitVars, evalVars,
                   rs42, runVars>>

NextClean == CleanCell \/ ApplyCleaningToOutput

SpecClean == InitClean /\ [][NextClean]_vars

\* rows with distinct titles, no missing values
CleanPatent(i, cpc, label) ==
    [ucid |-> "u" \o ToString(i), title |-> "t" \o ToString(i), abstract |-> "a1",
     code |-> "c1", cpc_first_4 |-> cpc, labels |-> label]

Labels == {0, 1, 2}

\* raw is a file of at most maxRows such rows
PipelineFile(maxRows) ==
    \E n \in 0..maxRows : \E s \in [1..n -> Range(CpcCodes) \X Labels] :
        raw = ReadParquet([i \in 1..n |-> CleanPatent(i, s[i][1], s[i][2])])

Init ==
    /\ notebook \in {"nlp", "reg"}
    /\ PipelineFile(MaxRows)
    /\ pc = "clean"
    /\ Blank
    /\ rs42 = <<>>
    /\ runs = 1
    /\ prev = Unset

\* "Downsample Data" / "Data Preprocessing"
DownsampleCell ==
    /\ pc = "downsample"
    /\ LET majority == WhereLabel(df, 0)
           minority == WhereLabel(df, 1)
           n_samples == SampleSize(majority, minority)
       IN  /\ df_majority' = majority
           /\ df_minority' = minority
           /\ IF n_samples > Len(majority.rows)
              THEN \* resample: "Cannot sample ... when replace is False"
                   /\ error' = ValueError.error
                   /\ pc' = "failed"
                   /\ UNCHANGED <<df_majority_downsampled, df_downsampled, encoder, rs42>>
              ELSE \E permutation \in
                          SeededShuffles(rs42, Len(majority.rows), n_samples) :
                     LET sample == resample(majority, n_samples, permutation)
                         combined == concat(sample, minority)
                         fitted == LabelEncoder_fit(Column(combined, "cpc_first_4"))
                     IN  /\ rs42' = Observed(rs42, Len(majority.rows), permutation)
                         /\ df_majority_downsampled' = sample
                         /\ IF notebook = "nlp"
                            THEN /\ df_downsampled' = reset_index(combined)
                                 /\ encoder' = encoder
                            ELSE /\ encoder' = fitted
                                 /\ df_downsampled' =
                                       AssignColumn(combined, "cpc_4_encoded",
                                           [i \in DOMAIN combined.rows |->
                                               LabelEncoder_transform(fitted,
                                                   combined.rows[i]["cpc_first_4"])])
                         /\ pc' = "split"
                         /\ error' = error
    /\ UNCHANGED <<inputVars, cleanVars, splitVars, evalVars, runVars>>

\* nlp, "Data Preparation & Tokenization": train_test_split(test_size=0.2),
\* no seed, so a generator seeded from the process's ambient random state.
\* (The tokenizer's added columns are not modelled.)
SplitCellNlp ==
    /\ pc = "split" /\ notebook = "nlp"
    /\ LET dataset == from_pandas(df_downsampled)
           n_samples == Len(dataset.rows)
       IN  IF n_train(n_samples) = 0
           THEN /\ error' = ValueError.error
                /\ pc' = "failed"
                /\ UNCHANGED train_test_dataset
           ELSE \E permutation \in Arrangements(n_samples, n_samples, <<>>) :
                  /\ train_test_dataset' =
                        [train |-> Take(dataset, ind_train(permutation)),
                         test  |-> Take(dataset, ind_test(permutation))]
                  /\ pc' = "evaluate"
                  /\ error' = error
    /\ UNCHANGED <<inputVars, cleanVars, balanceVars, X_train, X_test, y_train,
                   y_test, evalVars, rs42, runVars>>

\* reg, "Model Training": train_test_split(X, y, test_size=0.2,
\* random_state=42), LogisticRegression().fit, model.predict
SplitCellReg ==
    /\ pc = "split" /\ notebook = "reg"
    /\ LET X == Series(df_downsampled, "cpc_4_encoded")
           y == Series(df_downsampled, "labels")
           n_samples == Len(X.rows)
       IN  IF n_train(n_samples) = 0
           THEN /\ error' = ValueError.error
                /\ pc' = "failed"
                /\ UNCHANGED <<X_train, X_test, y_train, y_test, predictions, rs42>>
           ELSE \E permutation \in SeededShuffles(rs42, n_samples, n_samples) :
                  /\ rs42' = Observed(rs42, n_samples, permutation)
                  /\ X_train' = Take(X, ind_train(permutation))
                  /\ X_test' = Take(X, ind_test(permutation))
                  /\ y_train' = Take(y, ind_train(permutation))
                  /\ y_test' = Take(y, ind_test(permutation))
                  /\ IF Cardinality(Range(Column(y_train', "labels"))) < 2
                     THEN \* fit: the solver needs samples of 2 classes
                          /\ error' = ValueError.error
                          /\ pc' = "failed"
                          /\ UNCHANGED predictions
                     ELSE \* the fitted model's answers are not computed here
                          /\ predictions' \in [1..Len(X_test'.rows) -> {0, 1}]
                          /\ pc' = "evaluate"
                          /\ error' = error
    /\ UNCHANGED <<inputVars, cleanVars, balanceVars, train_test_dataset, metrics,
                   runVars>>

\* nlp, "Model Training & Evaluation": trainer.evaluate() scores the test
\* rows and hands the scores and their labels to compute_metrics
EvaluateCellNlp ==
    /\ pc = "evaluate" /\ notebook = "nlp"
    /\ \E p_predictions \in
            [1..Len(train_test_dataset.test.rows) -> Logits \X Logits] :
          /\ predictions' = p_predictions
          /\ metrics' = compute_metrics(p_predictions,
                                        Column(train_test_dataset.test, "labels"))
    /\ pc' = "done"
    /\ UNCHANGED <<inputVars, error, cleanVars, balanceVars, splitVars, rs42, runVars>>

\* reg, "Model Evaluation"
EvaluateCellReg ==
    /\ pc = "evaluate" /\ notebook = "reg"
    /\ metrics' = Scores(Column(y_test, "labels"), predictions)
    /\ pc' = "done"
    /\ UNCHANGED <<inputVars, error, cleanVars, balanceVars, splitVars, predictions,
                   rs42, runVars>>

\* the kernel is restarted after the split cell (or the failure) and the
\* notebook is run again from the top on the same file
RunAgain ==
    /\ pc \in {"evaluate", "done", "failed"}
    /\ runs < MaxRuns
    /\ runs' = runs + 1
    /\ prev' = [df_majority_downsampled |-> df_majority_downsampled,
                df_downsampled |-> df_downsampled,
                train_test_dataset |-> train_test_dataset,
                X_train |-> X_train, X_test |-> X_test,
                y_train |-> y_train, y_test |-> y_test]
    /\ pc' = "clean"
    /\ error' = ""
    /\ df' = Unset /\ renormalized' = Unset
    /\ df_majority' = Unset /\ df_minority' = Unset
    /\ df_majority_downsampled' = Unset /\ df_downsampled' = Unset
    /\ encoder' = Unset
    /\ train_test_dataset' = Unset
    /\ X_train' = Unset /\ X_test' = Unset /\ y_train' = Unset /\ y_test' = Unset
    /\ predictions' = Unset /\ metrics' = Unset
    /\ UNCHANGED <<inputVars, rs42>>

Next ==
    \/ CleanCell
    \/ DownsampleCell
    \/ SplitCellNlp
    \/ SplitCellReg
    \/ EvaluateCellNlp
    \/ EvaluateCellReg

Spec == Init /\ [][Next]_vars

(* The cleaning and downsampling cells alone, on longer binary files *)

\* in the data a patent is positive only if its cpc_first_4 is H01L
CpcOf(label) == IF label = 1 THEN "H01L" ELSE "G06F"

InitBalance ==
    /\ notebook \in {"nlp", "reg"}
    /\ \E n \in 0..MaxBalanceRows : \E labels \in [1..n -> {0, 1}] :
          /\ Cardinality({i \in 1..n : labels[i] = 1}) <= MaxOnes
          /\ raw = ReadParquet([i \in 1..n |-> CleanPatent(i, CpcOf(labels[i]), labels[i])])
    /\ pc = "clean"
    /\ Blank
    /\ rs42 = <<>>
    /\ runs = 1
    /\ prev = Unset

NextBalance == CleanCell \/ DownsampleCell

SpecBalance == InitBalance /\ [][NextBalance]_vars

(* Two runs of the data preparation of a notebook on the same file *)

InitRerun ==
    /\ notebook \in {"nlp", "reg"}
    /\ PipelineFile(MaxRerunRows)
    /\ pc = "clean"
    /\ Blank
    /\ rs42 = <<>>
    /\ runs = 1
    /\ prev = Unset

NextRerun ==
    \/ CleanCell
    \/ DownsampleCell
    \/ SplitCellNlp
    \/ SplitCellReg
    \/ RunAgain

SpecRerun == InitRerun /\ [][NextRerun]_vars

(* The evaluation alone, on label sequences longer than the pipeline runs reach *)

LabelledRows(labels) ==
    [i \in DOMAIN labels |-> [index |-> i - 1, labels |-> labels[i]]]

InitMetrics ==
    /\ notebook \in {"nlp", "reg"}
    /\ raw = ReadParquet(<<>>)
    /\ pc = "evaluate"
    /\ error = ""
    /\ df = Unset /\ renormalized = Unset
    /\ df_majority = Unset /\ df_minority = Unset
    /\ df_majority_downsampled = Unset /\ df_downsampled = Unset
    /\ encoder = Unset
    /\ \E n \in 1..MaxLabels : \E labels \in [1..n -> {0, 1}] :
          /\ X_train = Unset /\ X_test = Unset /\ y_train = Unset
          /\ IF notebook = "nlp"
             THEN /\ train_test_dataset =
                        [train |-> [columns |-> {"labels"}, rows |-> <<>>],
                         test  |-> from_pandas([columns |-> {"labels"},
                                                rows |-> LabelledRows(labels)])]
                  /\ y_test = Unset
                  /\ predictions = Unset
             ELSE /\ train_test_dataset = Unset
                  /\ y_test = [columns |-> {"labels"}, rows |-> LabelledRows(labels)]
                  /\ predictions \in [1..n -> {0, 1}]
    /\ metrics = Unset
    /\ rs42 = <<>>
    /\ runs = 1
    /\ prev = Unset

NextMetrics == EvaluateCellNlp \/ EvaluateCellReg

SpecMetrics == InitMetrics /\ [][NextMetrics]_vars

---------------------------------------------------------------------------
(* Claims about the cleaning cell, checked under SpecClean *)

Cleaned == pc # "clean" /\ pc # "failed" /\ df # Unset

\* the row of the file a row of a later frame comes from (index label i is
\* row i + 1 of the file)
RawRow(r) == raw.rows[r["index"] + 1]

\* C4: the cleaned frame has at most as many rows as the file, no two of its
\* rows come from file rows with the same dedup key, every kept row is the
\* first row of the file with its key and carries that row's values, and no
\* kept row has a missing value in a retained column.
C4_NormalizerResult ==
    Cleaned =>
        /\ Len(df.rows) <= Len(raw.rows)
        /\ df.columns = (raw.columns \cup (IF notebook = "nlp" THEN {"text"} ELSE {}))
                            \ DroppedColumns(notebook)
        /\ \A i, j \in DOMAIN df.rows :
               i # j => ~SameKey(RawRow(df.rows[i]), RawRow(df.rows[j]), DedupKey(notebook))
        /\ \A i \in DOMAIN df.rows :
               /\ \A j \in 1..df.rows[i]["index"] :
                      ~SameKey(raw.rows[j], RawRow(df.rows[i]), DedupKey(notebook))
               /\ \A c \in df.columns :
                      /\ ~isna(c, df.rows[i][c])
                      /\ c \in raw.columns => df.rows[i][c] = RawRow(df.rows[i])[c]

\* C4 witness: the file repeats a key; the first row with it was kept and a
\* later one removed.
C4_Witness ==
    /\ Cleaned
    /\ \E i \in DOMAIN df.rows : \E j \in DOMAIN raw.rows :
           /\ j > df.rows[i]["index"] + 1
           /\ SameKey(raw.rows[j], RawRow(df.rows[i]), DedupKey(notebook))
           /\ raw.rows[j] # [RawRow(df.rows[i]) EXCEPT !["index"] = j - 1]

---------------------------------------------------------------------------
(* Claims about the downsampling cell *)

CountLabel(frame, value) ==
    Cardinality({i \in DOMAIN frame.rows : frame.rows[i]["labels"] = value})

\* the downsampling cell has run, to its end or to an exception
DownsampleRan == df_majority # Unset
DownsampleSucceeded == df_downsampled # Unset
DownsampleFailed == DownsampleRan /\ df_downsampled = Unset /\ pc = "failed"
\* the downsampling cell was the last cell to run
JustDownsampled == DownsampleRan /\ (pc = "split" \/ DownsampleFailed)

BothLabelsPresent == CountLabel(df, 0) > 0 /\ CountLabel(df, 1) > 0

\* C1: whenever the downsampling cell produces a balanced frame from a
\* cleaned frame holding both labels, that frame has as many rows labelled 0
\* as rows labelled 1; and on 10 rows of which 9 are labelled 0 and one is
\* labelled 1 the cell does produce a frame, of exactly 2 rows, one per label.
C1_BalancedCounts ==
    /\ (DownsampleSucceeded /\ BothLabelsPresent) =>
           CountLabel(df_downsampled, 0) = CountLabel(df_downsampled, 1)
    /\ (DownsampleRan /\ Len(df.rows) = 10
           /\ CountLabel(df, 0) = 9 /\ CountLabel(df, 1) = 1) =>
           /\ DownsampleSucceeded
           /\ Len(df_downsampled.rows) = 2
           /\ CountLabel(df_downsampled, 0) = 1
           /\ CountLabel(df_downsampled, 1) = 1

\* C1 witness: the 9-to-1 frame has been downsampled to 2 rows.
C1_Witness ==
    /\ DownsampleSucceeded
    /\ Len(df.rows) = 10 /\ CountLabel(df, 0) = 9 /\ CountLabel(df, 1) = 1
    /\ Len(df_downsampled.rows) = 2

\* a frame's rows restricted to the columns of the cleaned frame
Values(frame) ==
    [i \in DOMAIN frame.rows |-> [c \in df.columns |-> frame.rows[i][c]]]

Occurrences(rows, r) == Cardinality({i \in DOMAIN rows : rows[i] = r})

MoreFrequent == IF CountLabel(df, 1) > CountLabel(df, 0) THEN 1 ELSE 0
LessFrequent == 1 - MoreFrequent
SmallerCount == IF CountLabel(df, 1) > CountLabel(df, 0)
                THEN CountLabel(df, 0) ELSE CountLabel(df, 1)

\* what C9 says of a finished downsampling cell: m distinct rows of the more
\* frequent group were drawn and returned with every row of the other group
SampledFromMoreFrequent ==
    /\ error = ""
    /\ DownsampleSucceeded
    /\ Len(df_majority_downsampled.rows) = SmallerCount
    /\ Injective(Column(df_majority_downsampled, "index"))
    /\ \A i \in DOMAIN df_majority_downsampled.rows :
           /\ df_majority_downsampled.rows[i]["labels"] = MoreFrequent
           /\ \E j \in DOMAIN df.rows : df.rows[j] = df_majority_downsampled.rows[i]
    /\ Len(df_downsampled.rows) = 2 * SmallerCount
    /\ \A r \in Range(Values(df_downsampled)) :
           Occurrences(Values(df_downsampled), r) =
               Occurrences(Values(df_majority_downsampled), r)
               + Occurrences(Values(WhereLabel(df, LessFrequent)), r)

\* C9 as stated: on a binary frame with both labels present the downsampling
\* cell succeeds whichever label is the more frequent, draws
\* m = min(count(0), count(1)) pairwise distinct rows from the more frequent
\* group and returns them with every row of the less frequent group, each
\* once and unchanged, 2 * m rows in all.
C9_MajoritySelection_AsClaimed ==
    (JustDownsampled /\ BothLabelsPresent) =>
        SampledFromMoreFrequent

\* C9, the part the code achieves: the same, when label 1 is not the more
\* frequent label.
C9_HoldsWhenOneIsNotMoreFrequent ==
    (JustDownsampled /\ BothLabelsPresent
        /\ CountLabel(df, 1) <= CountLabel(df, 0)) =>
        SampledFromMoreFrequent

\* C9, the failing case reached: label 1 is the more frequent label and the
\* cell has stopped with ValueError.
C9_FailingCase ==
    /\ DownsampleFailed /\ BothLabelsPresent
    /\ CountLabel(df, 1) > CountLabel(df, 0)
    /\ error = "ValueError"

MoreThanTwoLabels == Cardinality(Range(Column(df, "labels"))) > 2

\* C10 as stated: with more than two distinct label values in the cleaned
\* frame the downsampling cell fails with UnsupportedLabelCardinality and
\* produces no balanced frame.
C10_LabelCardinality_AsClaimed ==
    (JustDownsampled /\ MoreThanTwoLabels) =>
        error = "UnsupportedLabelCardinality" /\ df_downsampled = Unset

\* C10 amended: with more than two distinct label values the cell never
\* raises UnsupportedLabelCardinality; it leaves the rows labelled otherwise
\* than 0 or 1 out and goes by the counts of 0 and 1 alone: ValueError and no
\* balanced frame if 1 outnumbers 0, else a balanced frame of 2 * count(1)
\* rows all labelled 0 or 1.
C10_OtherLabelsLeftOut ==
    (JustDownsampled /\ MoreThanTwoLabels) =>
        /\ error # "UnsupportedLabelCardinality"
        /\ IF CountLabel(df, 1) > CountLabel(df, 0)
           THEN DownsampleFailed /\ error = "ValueError"
           ELSE /\ DownsampleSucceeded /\ error = ""
                /\ Len(df_downsampled.rows) = 2 * CountLabel(df, 1)
                /\ Range(Column(df_downsampled, "labels")) \subseteq {0, 1}
                /\ CountLabel(df_downsampled, 0) = CountLabel(df_downsampled, 1)

\* C10 witness: a frame with labels 0, 1 and 2 was downsampled to one row
\* labelled 0 and one labelled 1.
C10_Witness ==
    /\ DownsampleSucceeded
    /\ MoreThanTwoLabels
    /\ Len(df_downsampled.rows) = 2
    /\ Len(df.rows) > 2

---------------------------------------------------------------------------
(* Claims about the split *)

\* the two sides were assigned
SplitDone ==
    IF notebook = "nlp" THEN train_test_dataset # Unset ELSE X_test # Unset

\* the split cell ran and raised before assigning the sides
SplitFailed ==
    /\ DownsampleSucceeded /\ ~SplitDone /\ pc = "failed"

\* the rows handed to the split, and the rows of its two sides
SplitInput ==
    IF notebook = "nlp" THEN from_pandas(df_downsampled).rows
    ELSE Series(df_downsampled, "cpc_4_encoded").rows
TrainRows == IF notebook = "nlp" THEN train_test_dataset.train.rows ELSE X_train.rows
TestRows == IF notebook = "nlp" THEN train_test_dataset.test.rows ELSE X_test.rows

\* every row of the input is on exactly one side; reg: the labels are split
\* the same way as the features
Partitioned ==
    /\ Injective(SplitInput)
    /\ Range(TrainRows) \cup Range(TestRows) = Range(SplitInput)
    /\ Range(TrainRows) \cap Range(TestRows) = {}
    /\ Len(TrainRows) + Len(TestRows) = Len(SplitInput)
    /\ notebook = "reg" =>
          /\ Column(y_train, "index") = Column(X_train, "index")
          /\ Column(y_test, "index") = Column(X_test, "index")
          /\ Range(y_train.rows) \cup Range(y_test.rows)
                = Range(Series(df_downsampled, "labels").rows)

PrevSplitDone ==
    /\ prev # Unset
    /\ IF notebook = "nlp" THEN prev.train_test_dataset # Unset
       ELSE prev.X_test # Unset

\* C6 as stated: in both notebooks a second run on the same file puts every
\* row on the same side as the run before.
C6_SplitReproducible_AsClaimed ==
    (SplitDone /\ PrevSplitDone) =>
        /\ train_test_dataset = prev.train_test_dataset
        /\ X_train = prev.X_train /\ X_test = prev.X_test
        /\ y_train = prev.y_train /\ y_test = prev.y_test

\* C6, the part the code achieves: the same in the regression notebook,
\* whose split is seeded.
C6_HoldsInRegressionNotebook ==
    (notebook = "reg" /\ SplitDone /\ PrevSplitDone) =>
        /\ X_train = prev.X_train /\ X_test = prev.X_test
        /\ y_train = prev.y_train /\ y_test = prev.y_test

\* C7: a second run of the downsampling cell on the same frame draws the
\* same majority rows in the same order and gives the same balanced frame
\* (and stops exactly when the run before stopped).
C7_BalancerReproducible ==
    (runs > 1 /\ DownsampleRan) =>
        /\ df_majority_downsampled = prev.df_majority_downsampled
        /\ df_downsampled = prev.df_downsampled

\* C7 witness: a second run that had to choose among the majority rows.
C7_Witness ==
    /\ runs > 1 /\ DownsampleSucceeded
    /\ Len(df_minority.rows) >= 1
    /\ Len(df_majority.rows) > Len(df_minority.rows)
    /\ df_downsampled = prev.df_downsampled

---------------------------------------------------------------------------
(* Claims about the categorical encoder (regression notebook) *)

\* the row of the balanced frame with index label i
BalancedRow(i) ==
    df_downsampled.rows[CHOOSE k \in DOMAIN df_downsampled.rows :
                            df_downsampled.rows[k]["index"] = i]

\* a Series row carries the code the encoder gives its category
EncodedByFit(x) ==
    /\ x["index"] \in Range(Column(df_downsampled, "index"))
    /\ x["cpc_4_encoded"] \in 0..(Len(encoder.classes_) - 1)
    /\ encoder.classes_[x["cpc_4_encoded"] + 1] = BalancedRow(x["index"])["cpc_first_4"]

\* the encoder's state: no encoder in the NLP notebook and none before the
\* balanced frame exists; in the regression notebook its classes are the
\* distinct cpc_first_4 values of the whole balanced frame, each once, every
\* row's code is the position of its category in them (equal categories
\* share a code, different ones do not, codes lie in [0, numCategories)), and
\* every train and test row carries the code of that one mapping for a
\* category of the fit set.
EncoderFitOnBalancedFrame ==
    /\ notebook = "nlp" => encoder = Unset
    /\ pc \in {"clean", "downsample"} => encoder = Unset
    /\ (notebook = "reg" /\ DownsampleSucceeded) =>
          /\ encoder # Unset
          /\ Injective(encoder.classes_)
          /\ Range(encoder.classes_) = Range(Column(df_downsampled, "cpc_first_4"))
          /\ Injective(Column(df_downsampled, "index"))
          /\ \A i \in DOMAIN df_downsampled.rows :
                EncodedByFit(df_downsampled.rows[i])
          /\ SplitDone =>
                /\ \A i \in DOMAIN X_train.rows : EncodedByFit(X_train.rows[i])
                /\ \A i \in DOMAIN X_test.rows : EncodedByFit(X_test.rows[i])

\* C8: the encoder is fitted exactly once, on the full balanced frame and
\* before the split (once fitted it is never fitted again), it numbers the
\* distinct categories of that frame uniquely in [0, numCategories), and
\* train and test rows are encoded by that same mapping, no test row with a
\* category outside the fit set.
C8_EncoderConsistent ==
    /\ []EncoderFitOnBalancedFrame
    /\ [][encoder # Unset => encoder' = encoder]_vars

\* C8 witness: a balanced frame with two categories was encoded and split,
\* and a test row carries the second category's code.
C8_Witness ==
    /\ notebook = "reg" /\ DownsampleSucceeded /\ SplitDone
    /\ Len(encoder.classes_) = 2
    /\ Len(df_downsampled.rows) = 4
    /\ \E i \in DOMAIN X_test.rows : X_test.rows[i]["cpc_4_encoded"] = 1

---------------------------------------------------------------------------
(* Claims about the evaluation *)

\* the labels the evaluation compares
TrueLabels ==
    IF notebook = "nlp" THEN Column(train_test_dataset.test, "labels")
    ELSE Column(y_test, "labels")
PredictedLabels ==
    IF notebook = "nlp"
    THEN [i \in DOMAIN predictions |->
            IF predictions[i][2] > predictions[i][1] THEN 1 ELSE 0]
    ELSE predictions

Pairs(t, p) ==
    Cardinality({i \in DOMAIN TrueLabels : TrueLabels[i] = t /\ PredictedLabels[i] = p})

\* fractions <<numerator, denominator>>, denominators positive
Same(a, b) == a[1] * b[2] = b[1] * a[2]
Ratio(n, d) == IF d = 0 THEN <<0, 1>> ELSE <<n, d>>
Plus(a, b) == <<a[1] * b[2] + b[1] * a[2], a[2] * b[2]>>
Times(a, b) == <<a[1] * b[1], a[2] * b[2]>>
\* a / b, 0 where b is 0
Over(a, b) == IF b[1] = 0 THEN <<0, 1>> ELSE <<a[1] * b[2], a[2] * b[1]>>

ClaimedPrecision == Ratio(Pairs(1, 1), Pairs(1, 1) + Pairs(0, 1))
ClaimedRecall == Ratio(Pairs(1, 1), Pairs(1, 1) + Pairs(1, 0))
ClaimedF1 ==
    Over(Times(<<2, 1>>, Times(ClaimedPrecision, ClaimedRecall)),
         Plus(ClaimedPrecision, ClaimedRecall))

\* C3: the reported scores are accuracy = (TP+TN)/total, precision =
\* TP/(TP+FP) or 0, recall = TP/(TP+FN) or 0 and F1 = 2PR/(P+R) or 0, as
\* exact fractions, with TP, FP, FN, TN counted with 1 as the positive label;
\* predicted [1,0,1,1] against true [1,0,0,1] gives TP=2, FP=1, FN=0, TN=1
\* and 3/4, 2/3, 1, 4/5; all-correct predictions with a positive give 1 four
\* times.
C3_Metrics ==
    pc = "done" =>
        /\ Len(PredictedLabels) = Len(TrueLabels)
        /\ Same(metrics.accuracy, <<Pairs(1, 1) + Pairs(0, 0), Len(TrueLabels)>>)
        /\ Same(metrics.precision, ClaimedPrecision)
        /\ Same(metrics.recall, ClaimedRecall)
        /\ Same(metrics.f1, ClaimedF1)
        /\ \A k \in {"accuracy", "precision", "recall", "f1"} : metrics[k][2] > 0
        /\ (PredictedLabels = <<1, 0, 1, 1>> /\ TrueLabels = <<1, 0, 0, 1>>) =>
              /\ Pairs(1, 1) = 2 /\ Pairs(0, 1) = 1
              /\ Pairs(1, 0) = 0 /\ Pairs(0, 0) = 1
              /\ Same(metrics.accuracy, <<3, 4>>)
              /\ Same(metrics.precision, <<2, 3>>)
              /\ Same(metrics.recall, <<1, 1>>)
              /\ Same(metrics.f1, <<4, 5>>)
        /\ (PredictedLabels = TrueLabels /\ 1 \in Range(TrueLabels)) =>
              \A k \in {"accuracy", "precision", "recall", "f1"} :
                  Same(metrics[k], <<1, 1>>)

\* C3 witness: predicted [1,0,1,1] against true [1,0,0,1] has been scored.
C3_Witness ==
    /\ pc = "done"
    /\ PredictedLabels = <<1, 0, 1, 1>>
    /\ TrueLabels = <<1, 0, 0, 1>>
    /\ Same(metrics.f1, <<4, 5>>)

---------------------------------------------------------------------------
(* Claims about a cleaned frame that is already balanced *)

\* the cleaned frame holds as many rows labelled 0 as rows labelled 1, at
\* least one of each
AlreadyBalanced == CountLabel(df, 0) = CountLabel(df, 1) /\ CountLabel(df, 1) > 0

OnlyBinaryLabels == Range(Column(df, "labels")) \subseteq {0, 1}

\* the row of the cleaned frame with index label i
CleanedRow(i) ==
    df.rows[CHOOSE k \in DOMAIN df.rows : df.rows[k]["index"] = i]

\* what C11 says, of a cleaned frame that holds only the labels 0 and 1: with
\* as many rows labelled 0 as rows labelled 1 the downsampling cell returns
\* the frame's records as they were, the same records in the same order.
C11_Unchanged_AsClaimed ==
    (DownsampleRan /\ AlreadyBalanced /\ OnlyBinaryLabels) =>
        /\ DownsampleSucceeded
        /\ Values(df_downsampled) = Values(df)

\* C11, amended: on a frame with as many rows labelled 0 as rows labelled 1
\* (at least one of each) the cell does not fail and returns every record
\* labelled 0 or 1 exactly once and no other record, but rearranged: first
\* the records labelled 0 (in the order the seeded shuffle gives them), then
\* the records labelled 1 in their input order.  The NLP notebook renumbers
\* the index 0, 1, 2, ...; the regression notebook keeps each record's index
\* label.
C11_SameRecordsRearranged ==
    (DownsampleRan /\ AlreadyBalanced) =>
        /\ DownsampleSucceeded
        /\ LET input == Values(df)
               output == Values(df_downsampled)
               zeros == CountLabel(df, 0)
               IsOne(r) == r["labels"] = 1
           IN  /\ Len(output) = 2 * zeros
               /\ Range(output) \subseteq Range(input)
               /\ \A r \in Range(input) :
                     Occurrences(output, r) =
                         IF r["labels"] \in {0, 1} THEN Occurrences(input, r) ELSE 0
               /\ \A i \in 1..zeros : output[i]["labels"] = 0
               /\ SubSeq(output, zeros + 1, 2 * zeros) = SelectSeq(input, IsOne)
               /\ IF notebook = "nlp"
                  THEN Column(df_downsampled, "index") = [i \in 1..(2 * zeros) |-> i - 1]
                  ELSE /\ Injective(Column(df_downsampled, "index"))
                       /\ \A i \in 1..(2 * zeros) :
                             /\ df_downsampled.rows[i]["index"] \in Range(Column(df, "index"))
                             /\ output[i] = [c \in df.columns |->
                                    CleanedRow(df_downsampled.rows[i]["index"])[c]]

\* C11 witness: a cleaned frame of two rows labelled 0 and two labelled 1
\* went through the cell and did not come back in its input order.
C11_Witness ==
    /\ DownsampleSucceeded
    /\ AlreadyBalanced
    /\ CountLabel(df, 0) = 2
    /\ Len(df.rows) = 4
    /\ Values(df_downsampled) # Values(df)

===========================================================================
